---- MODULE Spec2Model ----
(***************************************************************************)
(* The live account cache of internal/cache/account_cache.go: the sorted   *)
(* account list `all`, the two lookup maps byAddr and byFile, the lookups  *)
(* Find and FindConfigFile, the reconciliation pass scanAccounts, the gate *)
(* of MaybeReload (watcher and throttle timer) and Close; the goroutines   *)
(* that race on the cache's mutex; and the delegate's GetEventStream.      *)
(*                                                                         *)
(* Strings (URL schemes, URL paths, file paths) are tuples of character    *)
(* codes compared the way Go compares strings (byte-wise, a proper prefix  *)
(* first).  Go maps are functions whose DOMAIN is the set of keys present. *)
(* Go slice indices are 0-based; sequences here are 1-based, so all[i] of  *)
(* the source is all[i + 1] here.                                          *)
(***************************************************************************)
EXTENDS Integers, Sequences, FiniteSets, TLC

VARIABLES
    all,       \* ac.all: accountsByURL
    byAddr,    \* ac.byAddr: map[common.Address][]accounts.Account
    byFile,    \* ac.byFile: map[string]accounts.Account
    fileC,     \* ac.fileC: the paths seen by the last directory scan
    notify,    \* ac.notify: the number of signals buffered in the channel
    dir,       \* the key directory: path -> content of the file, or NoFile
    modified,  \* the paths whose signature changed since the last scan
    last,      \* the last call on the cache: its arguments and its result
    throttle,  \* ac.throttle: nil, or the timer and its channel C
    running,   \* ac.watcher.running
    notifyNil, \* ac.notify == nil: Close has closed the channel
    panicked,  \* a goroutine of the program has panicked
    since,     \* the time since the last caller-triggered pass, capped
    reload,    \* what the last MaybeReload did at its gate
    pc,        \* the position of the pass in flight, when its steps are told apart
    mu,        \* ac.Mu: the goroutine that holds it, or NoThread
    th,        \* the goroutines that call into the cache: where each stands
    es         \* the delegate's event stream: wallets, events queued, messages sent

\* The variables only MaybeReload, Close and the stepwise pass write.
ctl == <<throttle, running, notifyNil, panicked, since, reload, pc>>

\* The variables only the goroutine-level specifications write.
conc == <<mu, th, es>>

vars == <<all, byAddr, byFile, fileC, notify, dir, modified, last, ctl, conc>>

----------------------------------------------------------------------------
(* Bounds                                                                  *)

\* Add is not called once len(ac.all) has reached this many accounts.
MaxAccounts == 3

\* The same cap in the specification that also runs Find.
MaxFindAccounts == 3

----------------------------------------------------------------------------
(* Strings                                                                 *)

\* Character codes, in byte order: '/' (0x2f) < 'a' < 'b' < 'k'.
Separator == 1
EmptyStr == << >>
StrA == <<2>>
StrB == <<3>>
StrK == <<4>>

RECURSIVE StrCompare(_, _)
\* strings.Compare(s, t): -1, 0 or +1.
StrCompare(s, t) ==
    IF s = << >> /\ t = << >> THEN 0
    ELSE IF s = << >> THEN -1
    ELSE IF t = << >> THEN 1
    ELSE IF Head(s) < Head(t) THEN -1
    ELSE IF Head(s) > Head(t) THEN 1
    ELSE StrCompare(Tail(s), Tail(t))

\* strings.ContainsRune(s, filepath.Separator)
ContainsSeparator(s) == \E k \in 1..Len(s) : s[k] = Separator

\* filepath.Join(d, name) for a non-empty d and a non-empty name without "."
\* elements: Clean leaves d + "/" + name as it is.
Join(d, name) == d \o <<Separator>> \o name

\* ac.keydir, fixed at construction ("k").
keydir == StrK

----------------------------------------------------------------------------
(* Accounts                                                                *)

ZeroAddress == 0
Addresses == {1, 2}

Schemes == {StrA, StrB}
PathAccA == Join(keydir, StrA)    \* "k/a"
PathAccB == Join(keydir, StrB)    \* "k/b"
Paths == {EmptyStr, PathAccA, PathAccB}

MkURL(s, p) == [Scheme |-> s, Path |-> p]
MkAccount(u, a) == [URL |-> u, Address |-> a]

\* accounts.Account{}: the zero value.
ZeroAccount == MkAccount(MkURL(EmptyStr, EmptyStr), ZeroAddress)

URLs == {MkURL(s, p) : s \in Schemes, p \in Paths}

\* The accounts given to Add: every path and address under the first scheme
\* (two accounts may share a URL, two an address, one has the empty path),
\* and one account of the second scheme whose path is below "k/b".
Accts ==
    {x \in {MkAccount(u, a) : u \in URLs, a \in Addresses} :
        x.URL.Scheme = StrB => (x.URL.Path = PathAccA /\ x.Address = 2)}

Files == {"f1", "f2"}

\* URL.Cmp: by scheme, and by path when the schemes are equal.
Cmp(u, v) ==
    IF u.Scheme = v.Scheme THEN StrCompare(u.Path, v.Path)
    ELSE StrCompare(u.Scheme, v.Scheme)

\* accountsByURL.Less
Less(x, y) == Cmp(x.URL, y.URL) < 0

----------------------------------------------------------------------------
(* Slices and maps                                                         *)

RECURSIVE SearchFrom(_, _, _)
\* The loop of sort.Search over the 0-based range [i, j); f[h + 1] is f(h).
SearchFrom(i, j, f) ==
    IF i < j
    THEN LET h == (i + j) \div 2
         IN  IF ~f[h + 1] THEN SearchFrom(h + 1, j, f) ELSE SearchFrom(i, h, f)
    ELSE i

\* sort.Search(n, f), with f given as the tuple of its values on 0..n-1.
Search(f) == SearchFrom(0, Len(f), f)

\* append(s, zero); copy(s[i+1:], s[i:]); s[i] = x   (i is 0-based)
InsertAt(s, i, x) == SubSeq(s, 1, i) \o <<x>> \o SubSeq(s, i + 1, Len(s))

\* append(s[:i], s[i+1:]...)   (i is 0-based)
RemoveAt(s, i) == SubSeq(s, 1, i) \o SubSeq(s, i + 2, Len(s))

\* m[k] of a Go map of slices: the nil slice when k is absent.
MapGet(m, k) == IF k \in DOMAIN m THEN m[k] ELSE << >>

\* m[k] = v
MapSet(m, k, v) == [x \in DOMAIN m \cup {k} |-> IF x = k THEN v ELSE m[x]]

\* delete(m, k)
MapDelete(m, k) == [x \in DOMAIN m \ {k} |-> m[x]]

EmptyMap == [x \in {} |-> x]

\* A removeAccount whose comparison never matches.
removeAccountMissed(slice, elem) == slice

\* removeAccount(slice, elem): drops the first element equal to elem.
removeAccount(slice, elem) ==
    IF \E k \in 1..Len(slice) : slice[k] = elem
    THEN LET k == CHOOSE k \in 1..Len(slice) :
                      /\ slice[k] = elem
                      /\ \A l \in 1..(k - 1) : slice[l] # elem
         IN  RemoveAt(slice, k - 1)
    ELSE slice

----------------------------------------------------------------------------
(* The index operations, as functions of the index st = [all, byAddr,      *)
(* byFile].                                                                *)

Index(a, ba, bf) == [all |-> a, byAddr |-> ba, byFile |-> bf]

\* The slot Add looks at: the first index whose URL is not below the new one.
AddSlot(st, newAccount) ==
    Search([k \in 1..Len(st.all) |-> Cmp(st.all[k].URL, newAccount.URL) >= 0])

\* An Add without its early return.
AddPresentNever(st, newAccount) == FALSE

\* Add's early return: the account at the slot is the new account.
AddPresent(st, newAccount) ==
    LET i == AddSlot(st, newAccount)
    IN  i < Len(st.all) /\ st.all[i + 1] = newAccount

\* AccountCache.Add
AddOp(st, newAccount, filepath) ==
    IF AddPresent(st, newAccount)
    THEN st
    ELSE Index(InsertAt(st.all, AddSlot(st, newAccount), newAccount),
               MapSet(st.byAddr, newAccount.Address,
                      Append(MapGet(st.byAddr, newAccount.Address), newAccount)),
               MapSet(st.byFile, filepath, newAccount))

\* acct, ok := ac.byFile[path]: the zero account when the path is unknown.
FileAccount(st, path) ==
    IF path \in DOMAIN st.byFile THEN st.byFile[path] ELSE ZeroAccount

\* The slot deleteByFile looks at: a search on URL.Path alone.
DeleteSlot(st, acct) ==
    Search([k \in 1..Len(st.all) |->
               StrCompare(st.all[k].URL.Path, acct.URL.Path) >= 0])

\* A pruning that stores the shortened list back even when it is empty.
PruneByAddrKeepKey(ba, removed) ==
    MapSet(ba, removed.Address,
           removeAccount(MapGet(ba, removed.Address), removed))

\* The byAddr map after removeAccount: the key goes when its list empties.
PruneByAddr(ba, removed) ==
    LET rest == removeAccount(MapGet(ba, removed.Address), removed)
    IN  IF Len(rest) = 0
        THEN MapDelete(ba, removed.Address)
        ELSE MapSet(ba, removed.Address, rest)

\* AccountCache.deleteByFile
DeleteByFileOp(st, path) ==
    LET acct == FileAccount(st, path)
        i    == DeleteSlot(st, acct)
    IN  IF i < Len(st.all) /\ st.all[i + 1].URL.Path = acct.URL.Path
        THEN Index(RemoveAt(st.all, i),
                   PruneByAddr(st.byAddr, st.all[i + 1]),
                   MapDelete(st.byFile, path))
        ELSE st

----------------------------------------------------------------------------
(* Find                                                                    *)

\* A Find that never narrows the candidates to the address.
FindMatchesWhole(st, a) == st.all

\* matches := ac.all, or ac.byAddr[a.Address] for a non-zero address.
FindMatches(st, a) ==
    IF a.Address # ZeroAddress THEN MapGet(st.byAddr, a.Address) ELSE st.all

\* A Find that does not complete a basename.
FindURLNoJoin(a) == a.URL

\* The query URL after "if only the basename is specified, complete the path".
FindURL(a) ==
    IF a.URL.Path # EmptyStr /\ ~ContainsSeparator(a.URL.Path)
    THEN MkURL(a.URL.Scheme, Join(keydir, a.URL.Path))
    ELSE a.URL

IsSortedByURL(s) == \A k \in 1..(Len(s) - 1) : ~Less(s[k + 1], s[k])

\* The outcomes of sort.Sort(accountsByURL(s)): the sort is not stable, so
\* every URL-ordered arrangement of s is a possible outcome.
SortOutcomes(s) ==
    {t \in {[k \in 1..Len(s) |-> s[pi[k]]] : pi \in Permutations(1..Len(s))} :
        IsSortedByURL(t)}

\* An error built from the copy without sorting it.
AmbiguousMatchesUnsorted(matches, sorted) == matches

\* err.Matches: the copy of matches, sorted.
AmbiguousMatches(matches, sorted) == sorted

\* A call on the cache: op(arg, file) returned (kind, acct, Matches).
Call(op, arg, file, kind, acct, ms) ==
    [op |-> op, arg |-> arg, file |-> file, kind |-> kind, acct |-> acct,
     Matches |-> ms]

FindResult(kind, a, acct, ms) == Call("Find", a, "", kind, acct, ms)

\* AccountCache.Find; sorted is the outcome of sorting the copy of matches.
FindOp(st, a, sorted) ==
    LET matches == FindMatches(st, a)
        url     == FindURL(a)
        hits    == {k \in 1..Len(matches) : matches[k].URL = url}
    IN  IF a.URL.Path # EmptyStr /\ hits # {}
        THEN FindResult("ok", a,
                        matches[CHOOSE k \in hits : \A l \in hits : k <= l], << >>)
        ELSE IF a.URL.Path # EmptyStr /\ a.Address = ZeroAddress
        THEN FindResult("ErrNoMatch", a, ZeroAccount, << >>)
        ELSE IF Len(matches) = 1
        THEN FindResult("ok", a, matches[1], << >>)
        ELSE IF Len(matches) = 0
        THEN FindResult("ErrNoMatch", a, ZeroAccount, << >>)
        ELSE FindResult("AmbiguousAddrError", a, ZeroAccount,
                        AmbiguousMatches(matches, sorted))

\* The index after Find: the sort runs on err.Matches, a copy, so the slice
\* matches aliases (ac.all or ac.byAddr[a.Address]) keeps its order.
FindIndexAfter(st, a, sorted) == st

\* accounts.URL{}
ZeroURL == MkURL(EmptyStr, EmptyStr)

\* A FindConfigFile that takes any file of an account with the address.
ConfigFileMatchesAnyURL(st, a) ==
    {f \in DOMAIN st.byFile : st.byFile[f].Address = a.Address}

\* The files at which the loop of FindConfigFile returns: the range over the
\* map visits the entries in an order that is not fixed, so the call returns
\* any one of them.
ConfigFileMatches(st, a) ==
    {f \in DOMAIN st.byFile :
        /\ st.byFile[f].Address = a.Address
        /\ (st.byFile[f].URL = ZeroURL \/ st.byFile[f].URL = a.URL)}

\* AccountCache.FindConfigFile returning file, or the error when ok is FALSE.
ConfigFileResult(a, ok, file) ==
    Call("FindConfigFile", a, file, IF ok THEN "ok" ELSE "notfound",
         ZeroAccount, << >>)

Cache == Index(all, byAddr, byFile)

SetCache(st) ==
    /\ all' = st.all
    /\ byAddr' = st.byAddr
    /\ byFile' = st.byFile

\* The locked part of HasAddress: len(ac.byAddr[addr]) > 0.
HasAddress(addr) == Len(MapGet(byAddr, addr)) > 0

\* The copy Accounts returns.
Accounts == all

----------------------------------------------------------------------------
(* The specification of the index under direct calls                       *)

NoCall == Call("none", ZeroAccount, "", "", ZeroAccount, << >>)

\* A directory entry: no file, a file that is no valid account record, or a
\* file that describes an account.
NoFile == [exists |-> FALSE, valid |-> FALSE, acct |-> ZeroAccount]
BadFile == [exists |-> TRUE, valid |-> FALSE, acct |-> ZeroAccount]
KeyFile(acct) == [exists |-> TRUE, valid |-> TRUE, acct |-> acct]

\* const minReloadInterval = 2 * time.Second; the unit of time is the second.
minReloadInterval == 2

\* ac.throttle: nil, or a timer that is armed with `left` seconds to go or
\* not armed, and whose channel C (capacity 1) holds C ticks.
NilTimer == [nil |-> TRUE, armed |-> FALSE, left |-> 0, C |-> 0]
Timer(armed, left, C) == [nil |-> FALSE, armed |-> armed, left |-> left, C |-> C]

\* What a MaybeReload did: where its gate sent it ("watching", "throttled",
\* "scan" or "scanerr"; "none" before any call) and whether it called
\* watcher.start().
Reload(gate, started) == [gate |-> gate, started |-> started]
NoReload == Reload("none", FALSE)

\* The goroutines that call into the cache, and the mark of a free mutex.
Threads == {"t1", "t2"}
NoThread == "none"

\* A goroutine: the call it is in, where it stands in it (at), the changed
\* paths its pass has still to handle (cs, ds, us), the path in hand, what
\* was read from it (acct), the account the path stood for before the update
\* in hand (old), who took the mutex it holds (own: the operation itself or
\* its caller), and how often its MaybeReload has released the mutex (rel).
Thread(call, at, cs, ds, us, path, acct, old, own, rel) ==
    [call |-> call, at |-> at, cs |-> cs, ds |-> ds, us |-> us,
     path |-> path, acct |-> acct, old |-> old, own |-> own, rel |-> rel]
Idle ==
    Thread("none", "idle", {}, {}, {}, "", ZeroAccount, ZeroAccount, "none", 0)

\* The delegate's event stream: where GetEventStream stands (at), the
\* wallets the backend holds, the events waiting in the delegate's channel,
\* every event ever queued (queued), every Send made on the stream with what
\* it returned (sent), and what GetEventStream returned (ret).
Stream(at, wallets, events, queued, sent, ret) ==
    [at |-> at, wallets |-> wallets, events |-> events, queued |-> queued,
     sent |-> sent, ret |-> ret]
NoStream == Stream("new", << >>, << >>, << >>, << >>, "")

\* NewAccountCache: empty list, empty maps, an empty channel of capacity 1,
\* a watcher that is not running, no throttle timer; nothing has been
\* scanned.  The directory starts empty.
Init ==
    /\ all = << >>
    /\ byAddr = EmptyMap
    /\ byFile = EmptyMap
    /\ fileC = {}
    /\ notify = 0
    /\ dir = [p \in Files |-> NoFile]
    /\ modified = {}
    /\ last = NoCall
    /\ throttle = NilTimer
    /\ running = FALSE
    /\ notifyNil = FALSE
    /\ panicked = FALSE
    /\ since = minReloadInterval
    /\ reload = NoReload
    /\ pc = "idle"
    /\ mu = NoThread
    /\ th = [t \in Threads |-> Idle]
    /\ es = NoStream

Add(newAccount, filepath) ==
    /\ Len(all) < MaxAccounts
    /\ SetCache(AddOp(Cache, newAccount, filepath))
    /\ last' = Call("Add", newAccount, filepath,
                    IF last.op = "Add" /\ last.arg = newAccount
                    THEN "repeated" ELSE "",
                    ZeroAccount, << >>)
    /\ UNCHANGED <<conc, fileC, notify, dir, modified, ctl>>

\* The account deleteByFile takes out of ac.all, or the zero account.
Removed(st, path) ==
    IF Len(DeleteByFileOp(st, path).all) < Len(st.all)
    THEN st.all[DeleteSlot(st, FileAccount(st, path)) + 1]
    ELSE ZeroAccount

deleteByFile(path) ==
    /\ SetCache(DeleteByFileOp(Cache, path))
    /\ last' = Call("deleteByFile", FileAccount(Cache, path), path, "",
                    Removed(Cache, path), << >>)
    /\ UNCHANGED <<conc, fileC, notify, dir, modified, ctl>>

Next ==
    \/ \E a \in Accts, f \in Files : Add(a, f)
    \/ \E f \in Files : deleteByFile(f)

Spec == Init /\ [][Next]_vars

----------------------------------------------------------------------------
(* The specification of the index under direct calls and lookups           *)

\* The accounts added where Find runs: one scheme, the two key-file paths,
\* both addresses (so two accounts may share a URL, and two an address).
KeyFileAccts == {x \in Accts : x.URL.Scheme = StrA /\ x.URL.Path # EmptyStr}

\* The queries: a zero or non-zero address; no path, a basename, a full path;
\* the scheme of the indexed accounts or another one.
QueryPaths == {EmptyStr, StrA, PathAccB}
Queries ==
    {MkAccount(MkURL(s, p), a) :
        s \in Schemes, p \in QueryPaths, a \in Addresses \cup {ZeroAddress}}

Find(a) ==
    \E sorted \in SortOutcomes(FindMatches(Cache, a)) :
        /\ last' = FindOp(Cache, a, sorted)
        /\ SetCache(FindIndexAfter(Cache, a, sorted))
        /\ UNCHANGED <<conc, fileC, notify, dir, modified, ctl>>

NextFind ==
    \/ \E a \in KeyFileAccts, f \in Files :
           Len(all) < MaxFindAccounts /\ Add(a, f)
    \/ \E f \in Files : deleteByFile(f)
    \/ \E a \in Queries : Find(a)

SpecFind == Init /\ [][NextFind]_vars

----------------------------------------------------------------------------
(* The specification of the index under direct calls and FindConfigFile    *)

\* As many accounts are added where FindConfigFile runs.
MaxConfigAccounts == 2

\* The accounts added there: one with the empty URL, two that share a URL
\* and differ in address, two that share an address and differ in URL.
ConfigAccts ==
    {MkAccount(ZeroURL, 1),
     MkAccount(MkURL(StrA, PathAccA), 1),
     MkAccount(MkURL(StrA, PathAccA), 2),
     MkAccount(MkURL(StrA, PathAccB), 1)}

\* The accounts asked for: those, and the same addresses at other URLs.
ConfigQueries ==
    ConfigAccts \cup {MkAccount(MkURL(StrB, PathAccA), 1),
                      MkAccount(MkURL(StrA, PathAccB), 2),
                      MkAccount(ZeroURL, 2)}

FindConfigFile(a) ==
    /\ IF ConfigFileMatches(Cache, a) = {}
       THEN last' = ConfigFileResult(a, FALSE, "")
       ELSE \E f \in ConfigFileMatches(Cache, a) :
               last' = ConfigFileResult(a, TRUE, f)
    /\ UNCHANGED <<conc, all, byAddr, byFile, fileC, notify, dir, modified, ctl>>

NextConfigFile ==
    \/ \E a \in ConfigAccts, f \in Files :
           Len(all) < MaxConfigAccounts /\ Add(a, f)
    \/ \E f \in Files : deleteByFile(f)
    \/ \E a \in ConfigQueries : FindConfigFile(a)

SpecConfigFile == Init /\ [][NextConfigFile]_vars

----------------------------------------------------------------------------
(* The reconciliation pass over the key directory                          *)

\* What a key file may hold.
Contents == {KeyFile(x) : x \in KeyFileAccts} \cup {BadFile}

\* The paths now in the directory.
Present == {p \in Files : dir[p] # NoFile}

\* fileCache.scan: the three disjoint sets of changed paths.
ScanCreates == Present \ fileC
ScanDeletes == fileC \ Present
ScanUpdates == (Present \cap fileC) \cap modified

\* The orders in which a set of paths may come out of ToSlice().
Orders(S) ==
    {o \in [1..Cardinality(S) -> S] :
        \A i, j \in 1..Cardinality(S) : i # j => o[i] # o[j]}

\* readAccount(path): the account the file describes, or nil (ZeroAccount)
\* when it cannot be opened, decoded, validated or converted.
readAccount(path) ==
    IF dir[path].exists /\ dir[path].valid THEN dir[path].acct ELSE ZeroAccount

\* The body of the loop over creates: Add what readAccount returns, if any.
CreatePath(st, path) ==
    IF readAccount(path) # ZeroAccount
    THEN AddOp(st, readAccount(path), path)
    ELSE st

\* The body of the loop over updates: deleteByFile, then Add what is read.
UpdatePath(st, path) == CreatePath(DeleteByFileOp(st, path), path)

RECURSIVE ApplyCreates(_, _)
ApplyCreates(st, ps) ==
    IF ps = << >> THEN st
    ELSE ApplyCreates(CreatePath(st, Head(ps)), Tail(ps))

RECURSIVE ApplyDeletes(_, _)
ApplyDeletes(st, ps) ==
    IF ps = << >> THEN st
    ELSE ApplyDeletes(DeleteByFileOp(st, Head(ps)), Tail(ps))

RECURSIVE ApplyUpdates(_, _)
ApplyUpdates(st, ps) ==
    IF ps = << >> THEN st
    ELSE ApplyUpdates(UpdatePath(st, Head(ps)), Tail(ps))

\* make(chan struct{}, 1)
NotifyCap == 1

\* A send that is made whether or not the channel has room.
PostNotifyUnbounded(n) == n + 1

\* select { case ac.notify <- struct{}{}: default: } on a channel that is
\* not nil and holds n signals.
PostNotify(n) == IF n < NotifyCap THEN n + 1 ELSE n

\* A select that sends whether or not ac.notify is nil.
NotifiedIgnoringNil(isNil, n) == PostNotify(n)

\* The same select when ac.notify may be nil: a send on a nil channel is
\* never ready, so the default case runs.
Notified(isNil, n) == IF isNil THEN n ELSE PostNotify(n)

\* The index after the three loops of a pass over the scan result: each set
\* is walked in any order.
PassOutcomes ==
    {ApplyUpdates(ApplyDeletes(ApplyCreates(Cache, cs), ds), us) :
        cs \in Orders(ScanCreates), ds \in Orders(ScanDeletes),
        us \in Orders(ScanUpdates)}

\* The directory differs from what the last successful scan saw.
Pending == ScanCreates # {} \/ ScanDeletes # {} \/ ScanUpdates # {}

\* The pass up to its notification step; err: fileC.scan returned an error.
\* A failed scan leaves the scanner's snapshot as it was; a scan that finds
\* no changed path leaves the index alone.
Applied(err) ==
    IF err
    THEN UNCHANGED <<all, byAddr, byFile, fileC, modified>>
    ELSE /\ fileC' = Present
         /\ modified' = {}
         /\ IF Pending
            THEN \E st \in PassOutcomes : SetCache(st)
            ELSE UNCHANGED <<all, byAddr, byFile>>

\* A pass that goes on to the loops and the notification although the scan
\* failed.
PassIgnoringErr(err) ==
    /\ Applied(FALSE)
    /\ notify' = IF Pending THEN Notified(notifyNil, notify) ELSE notify

\* The body of scanAccounts, one whole pass: the notification step is reached
\* when the scan succeeded and found a changed path.
Pass(err) ==
    /\ Applied(err)
    /\ notify' = IF ~err /\ Pending THEN Notified(notifyNil, notify) ELSE notify

\* What scanAccounts returns: the scan's error, or nil; and, for the record,
\* what became of the signal: no changed path, signal posted, signal dropped.
PassResult(err) ==
    Call("scanAccounts", ZeroAccount, "",
         IF err THEN "err"
         ELSE IF ~Pending THEN "nochange"
         ELSE IF Notified(notifyNil, notify) = notify THEN "dropped"
         ELSE "posted",
         ZeroAccount, << >>)

\* AccountCache.scanAccounts, called with no other operation in flight.
scanAccounts ==
    \E err \in BOOLEAN :
        /\ Pass(err)
        /\ last' = PassResult(err)
        /\ UNCHANGED <<conc, dir, ctl>>

\* Another process writes a key file (new, or over an old one).
WriteFile(path, content) ==
    /\ dir' = [dir EXCEPT ![path] = content]
    /\ modified' = modified \cup {path}
    /\ UNCHANGED <<conc, all, byAddr, byFile, fileC, notify, last, ctl>>

\* Another process removes a key file.
RemoveFile(path) ==
    /\ dir[path] # NoFile
    /\ dir' = [dir EXCEPT ![path] = NoFile]
    /\ modified' = modified \ {path}
    /\ UNCHANGED <<conc, all, byAddr, byFile, fileC, notify, last, ctl>>

\* The consumer of the notification channel takes the pending signal.
RecvNotify ==
    /\ notify > 0
    /\ notify' = notify - 1
    /\ UNCHANGED <<conc, all, byAddr, byFile, fileC, dir, modified, last, ctl>>

NextScan ==
    \/ \E p \in Files, c \in Contents : WriteFile(p, c)
    \/ \E p \in Files : RemoveFile(p)
    \/ scanAccounts
    \/ RecvNotify

SpecScan == Init /\ [][NextScan]_vars

----------------------------------------------------------------------------
(* The gate of MaybeReload: the watcher and the throttle timer             *)

\* time.NewTimer(d): armed, nothing in C yet.
NewTimer(d) == Timer(TRUE, d, 0)

\* The runtime delivers the tick of a timer whose duration has elapsed: a
\* send on C that does not block (C has capacity 1).
Fire(t) == Timer(FALSE, 0, 1)

\* A Reset that does not arm the timer again.
ResetNotArming(t, d) == Timer(FALSE, 0, t.C)

\* t.Reset(d): arms the timer again; what C holds stays in C.
Reset(t, d) == Timer(TRUE, d, t.C)

\* t.Stop(): the timer will not fire; what C holds stays in C.
Stop(t) == Timer(FALSE, 0, t.C)

\* case <-ac.throttle.C
Recv(t) == Timer(t.armed, t.left, 0)

\* One second passes for the timer t.
Elapse(t) ==
    IF ~t.nil /\ t.armed
    THEN IF t.left <= 1 THEN Fire(t) ELSE Timer(TRUE, t.left - 1, t.C)
    ELSE t

\* A gate that does not look at the watcher.
GateIgnoringWatcher(run, t) ==
    IF t.nil \/ t.C > 0 THEN "scan" ELSE "throttled"

\* A gate that lets no call through before a tick of the timer.
GateNeedsTick(run, t) ==
    IF run THEN "watching"
    ELSE IF t.C > 0 THEN "scan"
    ELSE "throttled"

\* Where MaybeReload goes: it returns while the watcher runs; it goes on to
\* the pass when there is no timer yet or C holds a tick; else it returns.
Gate(run, t) ==
    IF run THEN "watching"
    ELSE IF t.nil \/ t.C > 0 THEN "scan"
    ELSE "throttled"

\* ac.throttle before Reset, on the way to the pass.  A new timer of
\* duration 0 is due at once: whether the runtime has delivered its tick
\* by the time Reset runs (fired) is not decided by the program.
ThrottlePassed(t, fired) ==
    IF t.nil
    THEN IF fired THEN Fire(NewTimer(0)) ELSE NewTimer(0)
    ELSE Recv(t)

\* The locked part of MaybeReload and the pass after it.  ok: what
\* watcher.start() achieved; err: whether the directory scan failed.
Reloaded ==
    IF Gate(running, throttle) # "scan"
    THEN /\ reload' = Reload(Gate(running, throttle), FALSE)
         /\ UNCHANGED <<all, byAddr, byFile, fileC, modified, notify,
                        throttle, running, since>>
    ELSE \E fired \in (IF throttle.nil THEN BOOLEAN ELSE {FALSE}),
            ok \in BOOLEAN, err \in BOOLEAN :
            /\ running' = ok
            /\ throttle' = Reset(ThrottlePassed(throttle, fired), minReloadInterval)
            /\ since' = 0
            /\ Pass(err)
            /\ reload' = Reload(IF err THEN "scanerr" ELSE "scan", TRUE)

\* AccountCache.MaybeReload
MaybeReload ==
    /\ Reloaded
    /\ last' = Call("MaybeReload", ZeroAccount, "", "", ZeroAccount, << >>)
    /\ UNCHANGED <<conc, dir, notifyNil, panicked, pc>>

\* AccountCache.Accounts: MaybeReload, then the copy of ac.all.
CallAccounts ==
    /\ Reloaded
    /\ last' = Call("Accounts", ZeroAccount, "", "ok", ZeroAccount, all')
    /\ UNCHANGED <<conc, dir, notifyNil, panicked, pc>>

\* AccountCache.HasAddress: MaybeReload, then len(ac.byAddr[addr]) > 0.
CallHasAddress(addr) ==
    /\ Reloaded
    /\ last' = Call("HasAddress", MkAccount(ZeroURL, addr), "",
                    IF Len(MapGet(byAddr', addr)) > 0 THEN "true" ELSE "false",
                    ZeroAccount, << >>)
    /\ UNCHANGED <<conc, dir, notifyNil, panicked, pc>>

\* One second passes.
Tick ==
    /\ throttle' = Elapse(throttle)
    /\ since' = IF since < minReloadInterval THEN since + 1 ELSE since
    /\ UNCHANGED <<conc, all, byAddr, byFile, fileC, notify, dir, modified, last,
                   running, notifyNil, panicked, reload, pc>>

\* The running watcher reports directory activity: its loop runs the pass.
WatcherPass ==
    /\ running
    /\ scanAccounts

\* The directory where the gate is studied: one file, one account or junk.
ReloadFiles == {"f1"}
ReloadContents == {KeyFile(MkAccount(MkURL(StrA, PathAccA), 1)), BadFile}

Query ==
    \/ MaybeReload
    \/ CallAccounts
    \/ \E a \in Addresses : CallHasAddress(a)

NextReload ==
    \/ Query
    \/ Tick
    \/ WatcherPass
    \/ \E p \in ReloadFiles, c \in ReloadContents : WriteFile(p, c)
    \/ \E p \in ReloadFiles : RemoveFile(p)
    \/ RecvNotify

SpecReload == Init /\ [][NextReload]_vars

\* The callers that poll: MaybeReload itself, and Accounts.
Poll == MaybeReload \/ CallAccounts

NextThrottle ==
    \/ Poll
    \/ Tick
    \/ \E p \in ReloadFiles, c \in ReloadContents : WriteFile(p, c)
    \/ \E p \in ReloadFiles : RemoveFile(p)

\* The gate under polling: the calls keep coming, time passes, and the
\* directory scan does not fail for ever.
SpecThrottle ==
    /\ Init
    /\ [][NextThrottle]_vars
    /\ WF_vars(Tick)
    /\ WF_vars(Poll)
    /\ SF_vars(Poll /\ reload'.gate = "scan")

----------------------------------------------------------------------------
(* Close                                                                   *)

\* A Close that closes the channel whether or not ac.notify is nil.
ClosePanicsUnguarded(isNil) == isNil

\* Whether the last block of Close panics: close(ac.notify) runs only when
\* ac.notify is not nil, that is, on a channel that is open.
ClosePanics(isNil) == FALSE

\* AccountCache.Close: the watcher stops, the timer (if any) is stopped, the
\* channel is closed and ac.notify set to nil.
Close ==
    /\ ~panicked
    /\ running' = FALSE
    /\ throttle' = IF throttle.nil THEN throttle ELSE Stop(throttle)
    /\ panicked' = ClosePanics(notifyNil)
    /\ notifyNil' = TRUE
    /\ last' = Call("Close", ZeroAccount, "",
                    IF notifyNil THEN "again" ELSE "first", ZeroAccount, << >>)
    /\ UNCHANGED <<conc, all, byAddr, byFile, fileC, notify, dir, modified,
                   since, reload, pc>>

NextClose ==
    \/ Close
    \/ ~panicked /\ Poll
    \/ Tick
    \/ ~panicked /\ WatcherPass
    \/ \E p \in ReloadFiles, c \in ReloadContents : WriteFile(p, c)
    \/ \E p \in ReloadFiles : RemoveFile(p)

SpecClose == Init /\ [][NextClose]_vars

----------------------------------------------------------------------------
(* Close and a pass in flight                                              *)

\* Where a pass that has applied its changes stands: it is about to evaluate
\* ac.notify.  Close ran before the pass took the mutex for the first time
\* ("notify_closed"), or had not run by then ("notify").
AtNotify(isNil) == IF isNil THEN "notify_closed" ELSE "notify"

\* What the select reads in ac.notify, a field read outside the mutex: nil
\* when Close ran before the pass began; the channel when Close has not run;
\* either when Close has run since the pass began (a read that races with
\* the write in Close).
NotifyRead(at, isNil) ==
    IF at = "notify_closed" THEN {"send_nil"}
    ELSE IF isNil THEN {"send_nil", "send_chan"}
    ELSE {"send_chan"}

\* A send on the channel read panics when Close has closed that channel.
SendPanics(ch, closed) == ch = "send_chan" /\ closed

\* MaybeReload up to the notification step of its pass.
BeginPass ==
    /\ pc = "idle"
    /\ ~panicked
    /\ Gate(running, throttle) = "scan"
    /\ \E fired \in (IF throttle.nil THEN BOOLEAN ELSE {FALSE}),
          ok \in BOOLEAN, err \in BOOLEAN :
          /\ running' = ok
          /\ throttle' = Reset(ThrottlePassed(throttle, fired), minReloadInterval)
          /\ since' = 0
          /\ Applied(err)
          /\ reload' = Reload(IF err THEN "scanerr" ELSE "scan", TRUE)
          /\ pc' = IF ~err /\ Pending THEN AtNotify(notifyNil) ELSE "idle"
    /\ last' = Call("MaybeReload", ZeroAccount, "", "", ZeroAccount, << >>)
    /\ UNCHANGED <<conc, notify, dir, notifyNil, panicked>>

\* The select evaluates its channel operand.
LoadNotify ==
    /\ pc \in {"notify", "notify_closed"}
    /\ ~panicked
    /\ pc' \in NotifyRead(pc, notifyNil)
    /\ UNCHANGED <<conc, all, byAddr, byFile, fileC, notify, dir, modified, last,
                   throttle, running, notifyNil, panicked, since, reload>>

\* The select sends, takes its default case, or panics.
SendNotify ==
    /\ pc \in {"send_chan", "send_nil"}
    /\ ~panicked
    /\ panicked' = SendPanics(pc, notifyNil)
    /\ notify' = IF pc = "send_chan" /\ ~notifyNil THEN PostNotify(notify)
                  ELSE notify
    /\ pc' = "idle"
    /\ UNCHANGED <<conc, all, byAddr, byFile, fileC, dir, modified, last,
                   throttle, running, notifyNil, since, reload>>

NextRace ==
    \/ BeginPass
    \/ LoadNotify
    \/ SendNotify
    \/ Close
    \/ Tick
    \/ \E p \in ReloadFiles, c \in ReloadContents : WriteFile(p, c)
    \/ \E p \in ReloadFiles : RemoveFile(p)

SpecRace == Init /\ [][NextRace]_vars

----------------------------------------------------------------------------
(* Properties of the index under direct calls (Spec)                       *)

Count(s, x) == Cardinality({k \in 1..Len(s) : s[k] = x})
Holds(s, x) == \E k \in 1..Len(s) : s[k] = x
WithAddress(s, a) == SelectSeq(s, LAMBDA x : x.Address = a)

\* C1: after any sequence of Add and deleteByFile calls, the list Accounts()
\* returns is sorted by URL (URL.Cmp non-decreasing) and holds no account
\* twice, also when two accounts share a URL and differ in Address.
C1_SortedNoDuplicates ==
    /\ IsSortedByURL(Accounts)
    /\ \A i, j \in 1..Len(Accounts) : i # j => Accounts[i] # Accounts[j]

\* C2: for every address a, byAddr[a] holds exactly the accounts of `all`
\* whose Address is a, each as often as `all` holds it, so HasAddress(a) is
\* true iff some account of Accounts() has address a.
C2_AddressIndexConsistent ==
    /\ DOMAIN byAddr \subseteq Addresses
    /\ \A a \in Addresses \cup {ZeroAddress} :
          /\ Len(MapGet(byAddr, a)) = Len(WithAddress(all, a))
          /\ \A x \in Accts :
                Count(MapGet(byAddr, a), x)
                    = IF x.Address = a THEN Count(all, x) ELSE 0
          /\ HasAddress(a) <=> \E k \in 1..Len(Accounts) : Accounts[k].Address = a

\* A deleteByFile has taken one account of an address out of both lists and
\* the address keeps another account.
C2_Witness ==
    /\ last.op = "deleteByFile"
    /\ last.acct # ZeroAccount
    /\ HasAddress(last.acct.Address)
    /\ Len(all) >= 2

\* C3: every value byFile[path] is an account present in `all` and in byAddr
\* under its address; no byFile entry refers to a removed account.
C3_NoDanglingFileEntries ==
    \A p \in DOMAIN byFile :
        /\ Holds(all, byFile[p])
        /\ Holds(MapGet(byAddr, byFile[p].Address), byFile[p])

\* C4: no key of byAddr maps to an empty list, and when deleteByFile removes
\* the last account of an address the key of that address is deleted.
C4_NoEmptyAddrList ==
    /\ \A a \in DOMAIN byAddr : Len(byAddr[a]) > 0
    /\ (/\ last.op = "deleteByFile"
        /\ last.acct # ZeroAccount
        /\ WithAddress(all, last.acct.Address) = << >>)
       => last.acct.Address \notin DOMAIN byAddr

\* A deleteByFile has removed the last account of an address while accounts
\* of another address stay indexed.
C4_Witness ==
    /\ last.op = "deleteByFile"
    /\ last.acct # ZeroAccount
    /\ last.acct.Address \notin DOMAIN byAddr
    /\ all # << >>

\* C5: an Add of the account that the call before it added leaves `all`,
\* byAddr and byFile as the first of the two calls left them.
C5_IdempotentAdd ==
    [][(last.op = "Add" /\ last'.op = "Add" /\ last'.arg = last.arg)
           => (all' = all /\ byAddr' = byAddr /\ byFile' = byFile)]_vars

\* The same account has been added twice in a row, the second time under
\* another file path, next to another account with the same URL.
C5_Witness ==
    /\ last.op = "Add"
    /\ last.kind = "repeated"
    /\ last.file \notin DOMAIN byFile
    /\ \E k \in 1..Len(all) : all[k].URL = last.arg.URL /\ all[k] # last.arg

----------------------------------------------------------------------------
(* Properties of Find (SpecFind)                                           *)

\* The candidates of a query, read off the index.
Candidates(a) ==
    IF a.Address # ZeroAddress THEN MapGet(byAddr, a.Address) ELSE all

\* What the cardinality of the candidates cs decides for the call c.
ByCardinality(c, cs) ==
    /\ Len(cs) = 0 => c.kind = "ErrNoMatch" /\ c.acct = ZeroAccount
    /\ Len(cs) = 1 => c.kind = "ok" /\ c.acct = cs[1]
    /\ Len(cs) > 1 => c.kind = "AmbiguousAddrError" /\ c.acct = ZeroAccount

\* C8: for a query with no URL path the candidates are byAddr[Address] for a
\* non-zero Address and the full list otherwise, and Find returns ErrNoMatch
\* for 0 candidates, the candidate for 1, an AmbiguousAddrError for more; a
\* query with a non-zero Address never yields an account of another address.
C8_FindByCardinality ==
    last.op = "Find" =>
        /\ last.arg.URL.Path = EmptyStr => ByCardinality(last, Candidates(last.arg))
        /\ (last.kind = "ok" /\ last.arg.Address # ZeroAddress)
               => last.acct.Address = last.arg.Address

\* Find by address alone has met an address with two accounts while the index
\* also holds an account of another address.
C8_Witness ==
    /\ last.op = "Find"
    /\ last.arg.URL.Path = EmptyStr
    /\ last.arg.Address # ZeroAddress
    /\ last.kind = "AmbiguousAddrError"
    /\ Len(all) > Len(last.Matches)

\* Two accounts of address a with distinct URLs are indexed.
SharedAddress(a) ==
    \E i, j \in 1..Len(all) :
        /\ all[i].Address = a
        /\ all[j].Address = a
        /\ all[i].URL # all[j].URL

\* C9: when accounts with distinct URLs share an address, Find with only that
\* Address fails with an AmbiguousAddrError whose Matches are exactly the
\* accounts byAddr holds for the address, in URL order: the order they have
\* in the sorted list, whatever order they were added to byAddr in; and the
\* call leaves byAddr (and the sorted list) as it was.
C9_AmbiguityDeterminism ==
    [][(/\ last'.op = "Find"
        /\ last'.arg.URL.Path = EmptyStr
        /\ last'.arg.Address # ZeroAddress
        /\ SharedAddress(last'.arg.Address))
         => /\ last'.kind = "AmbiguousAddrError"
            /\ last'.Matches = WithAddress(all, last'.arg.Address)
            /\ IsSortedByURL(last'.Matches)
            /\ \A x \in Accts :
                  Count(last'.Matches, x) = Count(byAddr[last'.arg.Address], x)
            /\ byAddr' = byAddr
            /\ all' = all]_vars

\* An ambiguous Find whose Matches are in another order than byAddr holds
\* them: the accounts were not added in URL order.
C9_Witness ==
    /\ last.op = "Find"
    /\ last.arg.URL.Path = EmptyStr
    /\ last.arg.Address # ZeroAddress
    /\ last.kind = "AmbiguousAddrError"
    /\ SharedAddress(last.arg.Address)
    /\ last.Matches # byAddr[last.arg.Address]

\* The URL a query with a path is matched against.
QueryURL(a) ==
    IF \E k \in 1..Len(a.URL.Path) : a.URL.Path[k] = Separator
    THEN a.URL
    ELSE MkURL(a.URL.Scheme, keydir \o <<Separator>> \o a.URL.Path)

\* C10: a query with a URL path returns a candidate whose URL equals the query
\* URL (a path without separator first joined to the key directory) whenever
\* there is one, however many candidates there are; with no such candidate
\* the result is ErrNoMatch for a zero Address and is decided by the number
\* of candidates for a non-zero Address.
C10_FindByURL ==
    (last.op = "Find" /\ last.arg.URL.Path # EmptyStr) =>
        LET cs == Candidates(last.arg)
            u  == QueryURL(last.arg)
        IN  IF \E k \in 1..Len(cs) : cs[k].URL = u
            THEN /\ last.kind = "ok"
                 /\ last.acct.URL = u
                 /\ Holds(cs, last.acct)
            ELSE IF last.arg.Address = ZeroAddress
            THEN last.kind = "ErrNoMatch" /\ last.acct = ZeroAccount
            ELSE ByCardinality(last, cs)

\* A basename query with a zero Address has returned the account at the joined
\* path out of several candidates.
C10_Witness ==
    /\ last.op = "Find"
    /\ last.arg.URL.Path = StrA
    /\ last.arg.Address = ZeroAddress
    /\ last.kind = "ok"
    /\ last.acct.URL.Path = PathAccA
    /\ Len(all) >= 2

----------------------------------------------------------------------------
(* Properties of the reconciliation pass (SpecScan)                        *)

\* C6: if a pass has indexed file A (account a1, the only account indexed),
\* and then A is deleted and a file B describing another account a2 (of
\* another address, as the claim's HasAddress results require) is created,
\* then after the next pass Accounts() returns a2 and not a1,
\* HasAddress(a1.Address) is false and HasAddress(a2.Address) is true.
C6_DeleteCreateReconciled ==
    [][\A A, B \in Files, a1, a2 \in KeyFileAccts :
         (/\ A # B
          /\ a1.Address # a2.Address
          /\ A \in fileC /\ A \in DOMAIN byFile /\ byFile[A] = a1
          /\ all = <<a1>>
          /\ dir[A] = NoFile
          /\ B \notin fileC /\ dir[B] = KeyFile(a2)
          /\ fileC' # fileC)
           => /\ Holds(all', a2)
              /\ ~Holds(all', a1)
              /\ Len(MapGet(byAddr', a1.Address)) = 0
              /\ Len(MapGet(byAddr', a2.Address)) > 0]_vars

\* A pass has completed and the directory has not changed since.
InSync ==
    /\ last.op = "scanAccounts"
    /\ ScanCreates = {} /\ ScanDeletes = {} /\ ScanUpdates = {}

\* C7: after a pass completes with no further directory change, every file in
\* the directory that parses to a valid account has that account in
\* Accounts() and mapped in byFile under its path.
C7_IndexSynchronized ==
    InSync =>
        \A p \in Files :
            (dir[p].exists /\ dir[p].valid) =>
                /\ Holds(Accounts, dir[p].acct)
                /\ p \in DOMAIN byFile
                /\ byFile[p] = dir[p].acct

\* C17: a pass that finds at least one created, deleted or updated path
\* posts one signal without blocking: when the slot of the channel is taken
\* the signal is dropped, and the channel never holds more than one; a pass
\* that finds no changed path posts no signal.
C17_BestEffortNotify ==
    [][scanAccounts =>
          /\ (last'.kind # "err" /\ Pending)
                => notify' = (IF notify = 0 THEN 1 ELSE notify)
          /\ ~Pending => notify' = notify
          /\ notify' <= 1]_vars

\* A pass has found changed paths while the signal of an earlier pass was
\* still in the channel, and has gone through.
C17_Witness ==
    /\ last.op = "scanAccounts"
    /\ last.kind = "dropped"
    /\ notify = 1
    /\ fileC = Files

\* C20: in a pass, a created or updated path whose file cannot be opened,
\* decoded, validated or converted contributes no account, and when the path
\* is an updated one the account indexed for it before is removed (unless
\* another key file now describes that account); every other changed path
\* of the same pass is still applied.
C20_BadFileIsolated ==
    [][(scanAccounts /\ last'.kind # "err") =>
          \A p \in ScanCreates \cup ScanUpdates :
              readAccount(p) = ZeroAccount =>
                  /\ p \notin DOMAIN byFile'
                  /\ (p \in ScanUpdates /\ p \in DOMAIN byFile) =>
                        \/ ~Holds(all', byFile[p])
                        \/ \E q \in Present \ {p} : readAccount(q) = byFile[p]
                  /\ \A q \in (ScanCreates \cup ScanUpdates) \ {p} :
                        readAccount(q) # ZeroAccount
                            => Holds(all', readAccount(q))
                  /\ \A q \in ScanDeletes : q \notin DOMAIN byFile']_vars

----------------------------------------------------------------------------
(* Properties of FindConfigFile (SpecConfigFile)                           *)

\* The entry of byFile at path f answers the query a.
Answers(f, a) ==
    /\ f \in DOMAIN byFile
    /\ byFile[f].Address = a.Address
    /\ (byFile[f].URL = ZeroURL \/ byFile[f].URL = a.URL)

\* C11: FindConfigFile(a) returns a path p such that byFile[p].Address is
\* a.Address and byFile[p].URL is the empty URL or a.URL; it returns an error
\* exactly when no entry of byFile is such; it never changes the index.
C11_FindConfigFile ==
    [][last'.op = "FindConfigFile" =>
          /\ last'.kind \in {"ok", "notfound"}
          /\ last'.kind = "ok" => Answers(last'.file, last'.arg)
          /\ last'.kind = "notfound" <=> ~\E f \in Files : Answers(f, last'.arg)
          /\ all' = all /\ byAddr' = byAddr /\ byFile' = byFile]_vars

\* FindConfigFile has returned the file of an account with the empty URL for
\* a query with a URL, while another file holds an account of the address
\* under another URL.
C11_Witness ==
    /\ last.op = "FindConfigFile"
    /\ last.kind = "ok"
    /\ last.arg.URL # ZeroURL
    /\ byFile[last.file].URL = ZeroURL
    /\ \E f \in DOMAIN byFile :
          byFile[f].Address = last.arg.Address /\ ~Answers(f, last.arg)

----------------------------------------------------------------------------
(* Properties of the gate of MaybeReload (SpecReload)                      *)

\* The step is a MaybeReload that went on to the pass: it is the only step
\* that sets the time since the last caller-triggered pass to zero and
\* writes the timer.
PassTriggered == since' = 0 /\ throttle' # throttle

\* C12: with no watcher running, two MaybeReload calls less than
\* minReloadInterval apart perform at most one directory scan and at most
\* one watcher start between them, also when the first of the two is the
\* first call ever: a call goes on to the pass (and to watcher.start) only
\* when no call did so less than minReloadInterval before it.
C12_ThrottleSafety ==
    [][PassTriggered => since >= minReloadInterval]_vars

\* The step has run a pass at the caller's request.
Scanned ==
    /\ reload'.gate \in {"scan", "scanerr"}
    /\ since' = 0
    /\ reload'.gate = "scan" => fileC' = Present /\ modified' = {}

\* C13: with no watcher running (also after a watcher start that failed),
\* the first MaybeReload ever runs a pass, and so does a MaybeReload made
\* when minReloadInterval has passed since the timer was last reset; so
\* the caller-triggered passes go on for ever, and a change of the directory
\* is in the end seen by the pass of some later query.
C13_ThrottleProgress ==
    /\ [][(/\ ~running
           /\ throttle.nil \/ since >= minReloadInterval
           /\ Poll) => Scanned]_vars
    /\ []<>(running \/ since = 0)
    /\ Pending ~> (running \/ ~Pending)

\* A watcher start has failed, the interval has passed, and a query has
\* run a new pass that indexed a file written in between.
C13_Witness ==
    /\ ~running
    /\ ~throttle.nil
    /\ throttle.C = 0
    /\ since = 0
    /\ last.op = "Accounts"
    /\ last.Matches # << >>
    /\ reload = Reload("scan", TRUE)

\* No query and no MaybeReload has been made on the cache.
Untouched == reload.gate = "none"

\* C18: NewAccountCache scans nothing, starts no watcher and arms no timer:
\* until the first query (Accounts, HasAddress) or MaybeReload the index is
\* empty; and that first call runs a pass before it computes its result, so
\* the result already tells of the key files in the directory.
C18_LazyPopulation ==
    [][/\ Untouched =>
            /\ all = << >> /\ byAddr = EmptyMap /\ byFile = EmptyMap
            /\ fileC = {}
            /\ throttle.nil
            /\ ~running
       /\ (Untouched /\ Query) =>
            /\ reload'.gate \in {"scan", "scanerr"}
            /\ ~throttle'.nil
            /\ reload'.gate = "scan" =>
                  /\ fileC' = Present
                  /\ \A f \in Present :
                        readAccount(f) # ZeroAccount =>
                            /\ last'.op = "Accounts"
                                  => Holds(last'.Matches, readAccount(f))
                            /\ (/\ last'.op = "HasAddress"
                                /\ last'.arg.Address = readAccount(f).Address)
                                  => last'.kind = "true"]_vars

\* The first call on the cache was HasAddress, for the address of a key file
\* written before it, and has answered true.
C18_Witness ==
    /\ last.op = "HasAddress"
    /\ last.kind = "true"
    /\ since = 0
    /\ throttle = Timer(TRUE, minReloadInterval, 1)

\* C19: when the directory scan of a pass fails, the pass changes no part
\* of the index and posts no signal, and the query that triggered it returns
\* normally, from the index as the last successful pass left it; no query
\* and no MaybeReload hands the scan's error to its caller.
C19_ScanFailureAbsorbed ==
    [][/\ (Query /\ reload'.gate = "scanerr") =>
            /\ all' = all /\ byAddr' = byAddr /\ byFile' = byFile
            /\ fileC' = fileC
            /\ notify' = notify
            /\ last'.op = "Accounts" => last'.Matches = all
            /\ last'.op = "HasAddress" =>
                  (last'.kind = "true"
                      <=> \E k \in 1..Len(all) :
                             all[k].Address = last'.arg.Address)
       /\ last'.op \in {"Accounts", "HasAddress", "MaybeReload"} =>
            last'.kind \in {"ok", "true", "false", ""}]_vars

\* The key file of the one indexed account has been removed, the scan of
\* the next query's pass has failed, and Accounts() has returned the account.
C19_Witness ==
    /\ last.op = "Accounts"
    /\ reload.gate = "scanerr"
    /\ last.Matches # << >>
    /\ Present = {}
    /\ fileC # {}

----------------------------------------------------------------------------
(* Properties of Close (SpecClose)                                         *)

C15_NoNotifyAfterClose ==
    [][notifyNil => (notify' <= notify /\ ~panicked')]_vars

\* A pass has indexed a new file after Close: no signal was ever posted.
C15_Witness ==
    /\ notifyNil
    /\ all # << >>
    /\ notify = 0
    /\ reload.gate = "scan"
    /\ last.op # "Close"

\* C16: however Close interleaves with a pass in flight, the program does
\* not panic: the pass never sends on the notification channel after Close
\* has closed it.
C16_CloseRacingPass == ~panicked

----------------------------------------------------------------------------
(* Further properties of the gate (SpecReload) and of deleteByFile (Spec)  *)

\* C26: while the watcher is running, MaybeReload returns without a
\* directory scan, without a watcher start and without creating, reading or
\* resetting the throttle timer; a query made then returns the index as the
\* watcher's passes have left it.
C26_WatcherGate ==
    [][(running /\ Query) =>
          /\ reload' = Reload("watching", FALSE)
          /\ throttle' = throttle
          /\ running'
          /\ fileC' = fileC /\ modified' = modified
          /\ all' = all /\ byAddr' = byAddr /\ byFile' = byFile
          /\ notify' = notify
          /\ last'.op = "Accounts" => last'.Matches = all
          /\ last'.op = "HasAddress" =>
                (last'.kind = "true"
                    <=> \E k \in 1..Len(all) :
                           all[k].Address = last'.arg.Address)]_vars

\* With the watcher running, a tick waiting in the timer's channel and a
\* directory change not yet applied, Accounts() has returned the account a
\* pass indexed earlier.
C26_Witness ==
    /\ running
    /\ last.op = "Accounts"
    /\ reload = Reload("watching", FALSE)
    /\ last.Matches # << >>
    /\ throttle.C = 1
    /\ Pending

\* C27: when byFile[path] = acct, deleteByFile(path) leaves acct absent from
\* `all` and from byAddr[acct.Address], deletes byFile[path], and leaves
\* every other account and every other byFile entry as it was, also when
\* another indexed account has the URL path of acct or the indexed accounts
\* have different URL schemes.
C27_DeleteExactlyMapped ==
    [][\A f \in Files :
          (deleteByFile(f) /\ f \in DOMAIN byFile) =>
              LET acct == byFile[f]
              IN  /\ ~Holds(all', acct)
                  /\ ~Holds(MapGet(byAddr', acct.Address), acct)
                  /\ f \notin DOMAIN byFile'
                  /\ \A x \in Accts :
                        x # acct => Count(all', x) = Count(all, x)
                  /\ \A g \in DOMAIN byFile \ {f} :
                        g \in DOMAIN byFile' /\ byFile'[g] = byFile[g]]_vars

\* C28: when byFile has no entry for the path, deleteByFile leaves `all`,
\* byAddr and byFile as they were, in every reachable state of the cache,
\* also one in which an indexed account has an empty URL path.
C28_DeleteUnknownNoOp ==
    [][\A f \in Files :
          (deleteByFile(f) /\ f \notin DOMAIN byFile) =>
              (all' = all /\ byAddr' = byAddr /\ byFile' = byFile)]_vars

----------------------------------------------------------------------------
(* The delegate's event stream                                             *)

\* As many wallets as the backend holds, and as many events as are ever
\* queued.
MaxWallets == 2
MaxEvents == 2

\* Wallet URLs, the kinds of accounts.WalletEvent, and the errors a Send on
\* the stream may return ("" is nil).
WalletURLs == {"u1", "u2"}
WalletArrived == "WalletArrived"
WalletOpened == "WalletOpened"
WalletDropped == "WalletDropped"
WalletKinds == {WalletArrived, WalletOpened, WalletDropped}
SendErrors == {"e1", "e2"}

WalletEvent(wallet, kind) == [Wallet |-> wallet, Kind |-> kind]

\* The protobuf event of a wallet event kind.
AsProtoKind(kind) ==
    CASE kind = WalletArrived -> "WALLET_ARRIVED"
      [] kind = WalletOpened -> "WALLET_OPENED"
      [] kind = WalletDropped -> "WALLET_DROPPED"

\* proto.GetEventStreamResponse
Response(event, url) == [WalletEvent |-> event, WalletUrl |-> url]

\* A Send of msg on the stream that returned err.
Sent(msg, err) == [msg |-> msg, err |-> err]

\* A forwarding loop that takes the newest event first.
ReceivedNewest(events) == Len(events)

\* e := <-events receives the event queued first.
Received(events) == 1

\* The channel without its k-th event.
Without(events, k) ==
    [j \in 1..(Len(events) - 1) |-> IF j < k THEN events[j] ELSE events[j + 1]]

\* What GetEventStream does after a Send that returned err: it returns err,
\* or goes on with the wallets and then with the events.
AfterSend(s, err) ==
    IF err # "" THEN [s EXCEPT !.at = "returned", !.ret = err]
    ELSE IF Len(s.sent) < Len(s.wallets) THEN [s EXCEPT !.at = "arrive"]
    ELSE [s EXCEPT !.at = "forward"]

\* The backend comes to hold a wallet before the stream is asked for.
HoldWallet(w) ==
    /\ es.at = "new"
    /\ Len(es.wallets) < MaxWallets
    /\ es' = [es EXCEPT !.wallets = Append(@, w)]
    /\ UNCHANGED <<all, byAddr, byFile, fileC, notify, dir, modified, last,
                   ctl, mu, th>>

\* The delegate queues a wallet event on its event channel.
QueueEvent(e) ==
    /\ Len(es.queued) < MaxEvents
    /\ es' = [es EXCEPT !.events = Append(@, e), !.queued = Append(@, e)]
    /\ UNCHANGED <<all, byAddr, byFile, fileC, notify, dir, modified, last,
                   ctl, mu, th>>

\* GetEventStream is called: it reads the backend's wallets and subscribes.
GetEventStream ==
    /\ es.at = "new"
    /\ es' = AfterSend(es, "")
    /\ UNCHANGED <<all, byAddr, byFile, fileC, notify, dir, modified, last,
                   ctl, mu, th>>

\* One WALLET_ARRIVED message for the next wallet the backend holds.
SendArrived(err) ==
    /\ es.at = "arrive"
    /\ LET w == es.wallets[Len(es.sent) + 1]
           msg == Response(AsProtoKind(WalletArrived), w)
       IN es' = AfterSend([es EXCEPT !.sent = Append(@, Sent(msg, err))], err)
    /\ UNCHANGED <<all, byAddr, byFile, fileC, notify, dir, modified, last,
                   ctl, mu, th>>

\* The forwarding loop: receive an event of the channel and send it.
Forward(err) ==
    /\ es.at = "forward"
    /\ es.events # << >>
    /\ LET k == Received(es.events)
           e == es.events[k]
           msg == Response(AsProtoKind(e.Kind), e.Wallet)
       IN es' = AfterSend([es EXCEPT !.events = Without(@, k),
                                    !.sent = Append(@, Sent(msg, err))], err)
    /\ UNCHANGED <<all, byAddr, byFile, fileC, notify, dir, modified, last,
                   ctl, mu, th>>

NextStream ==
    \/ \E w \in WalletURLs : HoldWallet(w)
    \/ \E w \in WalletURLs, k \in WalletKinds : QueueEvent(WalletEvent(w, k))
    \/ GetEventStream
    \/ \E err \in {""} \cup SendErrors : SendArrived(err)
    \/ \E err \in {""} \cup SendErrors : Forward(err)

SpecStream == Init /\ [][NextStream]_vars

----------------------------------------------------------------------------
(* Goroutines: queries, passes and the mutex                               *)

\* The directory where goroutines race: one key file that holds one of two
\* accounts.
LockFiles == {"f1"}
AcctX == MkAccount(MkURL(StrA, PathAccA), 1)
AcctY == MkAccount(MkURL(StrA, PathAccB), 2)
LockContents == {KeyFile(AcctX), KeyFile(AcctY)}

\* A Lock that returns without taking the mutex.
LockNotTaken(t) == NoThread

\* ac.Mu.Lock() returns in goroutine t: t holds the mutex.
Locked(t) == t

\* ac.Mu.Unlock()
Unlocked == NoThread

\* A MaybeReload that keeps the mutex while its pass runs.
MutexHeldIntoScan(t, gate) == IF gate = "scan" THEN t ELSE Unlocked

\* The mutex when MaybeReload leaves its locked part: each of its three
\* paths unlocks, the third one before scanAccounts is called.
MutexAfterGate(t, gate) == Unlocked

\* Where a goroutine stands once it has the mutex it was waiting for.
Entered(at) ==
    CASE at = "mr_lock" -> "mr_gate"
      [] at = "rd_lock" -> "rd_body"
      [] at = "a_lock" -> "a_body"
      [] at = "d_lock" -> "d_body"
      [] at = "ud_lock" -> "ud_body"
      [] at = "c_lock" -> "c_body"

LockPoints == {"mr_lock", "rd_lock", "a_lock", "d_lock", "ud_lock", "c_lock"}

\* The goroutine between two paths of its pass.
BetweenPaths(r) ==
    [r EXCEPT !.at = "loop", !.path = "", !.acct = ZeroAccount,
              !.old = ZeroAccount, !.own = "none"]

\* The goroutine after scanAccounts has returned: the watcher's loop is
\* done, a query goes on to read the index.
AfterPass(r) ==
    IF r.call = "watcher"
    THEN Idle
    ELSE [BetweenPaths(r) EXCEPT !.at = "rd_lock", !.cs = {}, !.ds = {},
                                 !.us = {}]

\* A goroutine calls Accounts or HasAddress: MaybeReload comes first.
CallT(t, call) ==
    /\ th[t] = Idle
    /\ th' = [th EXCEPT ![t] = [Idle EXCEPT !.call = call, !.at = "mr_lock"]]
    /\ UNCHANGED <<all, byAddr, byFile, fileC, notify, dir, modified, last,
                   ctl, mu, es>>

\* The running watcher reports directory activity: its goroutine (there is
\* one) starts a pass.
WatchT(t) ==
    /\ th[t] = Idle
    /\ running
    /\ \A u \in Threads : th[u].call # "watcher"
    /\ th' = [th EXCEPT ![t] = [Idle EXCEPT !.call = "watcher", !.at = "scan"]]
    /\ UNCHANGED <<all, byAddr, byFile, fileC, notify, dir, modified, last,
                   ctl, mu, es>>

\* ac.Mu.Lock() in MaybeReload, Accounts, HasAddress, Add and deleteByFile:
\* it returns when the mutex is free.
LockT(t) ==
    /\ th[t].at \in LockPoints
    /\ mu = NoThread
    /\ mu' = Locked(t)
    /\ th' = [th EXCEPT ![t].at = Entered(@), ![t].own = "op"]
    /\ UNCHANGED <<all, byAddr, byFile, fileC, notify, dir, modified, last,
                   ctl, es>>

\* The locked part of MaybeReload.
GateT(t) ==
    /\ th[t].at = "mr_gate"
    /\ LET gate == Gate(running, throttle)
       IN /\ mu' = MutexAfterGate(t, gate)
          /\ IF gate # "scan"
             THEN /\ th' = [th EXCEPT ![t] = [AfterPass(@) EXCEPT
                                                 !.rel = @ + 1]]
                  /\ UNCHANGED <<throttle, running, since>>
             ELSE \E fired \in (IF throttle.nil THEN BOOLEAN ELSE {FALSE}),
                     ok \in BOOLEAN :
                     /\ running' = ok
                     /\ throttle' = Reset(ThrottlePassed(throttle, fired),
                                          minReloadInterval)
                     /\ since' = 0
                     /\ th' = [th EXCEPT ![t].at = "scan", ![t].own = "none",
                                         ![t].rel = @ + 1]
    /\ UNCHANGED <<all, byAddr, byFile, fileC, notify, dir, modified, last,
                   notifyNil, panicked, reload, pc, es>>

\* ac.fileC.scan(ac.keydir) in goroutine t, and the two early returns.
ScanT(t, err) ==
    /\ th[t].at = "scan"
    /\ IF err
       THEN /\ th' = [th EXCEPT ![t] = AfterPass(@)]
            /\ UNCHANGED <<fileC, modified>>
       ELSE /\ fileC' = Present
            /\ modified' = {}
            /\ th' = [th EXCEPT ![t] =
                         IF Pending
                         THEN [@ EXCEPT !.at = "loop", !.cs = ScanCreates,
                                        !.ds = ScanDeletes, !.us = ScanUpdates]
                         ELSE AfterPass(@)]
    /\ UNCHANGED <<all, byAddr, byFile, notify, dir, last, ctl, mu, es>>

\* The three loops: the next path of creates, then of deletes, then of
\* updates, in any order within a set; after the last one, the select.
LoopT(t) ==
    /\ th[t].at = "loop"
    /\ IF th[t].cs # {}
       THEN \E p \in th[t].cs :
               th' = [th EXCEPT ![t].cs = @ \ {p}, ![t].path = p,
                                ![t].at = "read"]
       ELSE IF th[t].ds # {}
       THEN \E p \in th[t].ds :
               th' = [th EXCEPT ![t].ds = @ \ {p}, ![t].path = p,
                                ![t].at = "d_lock"]
       ELSE IF th[t].us # {}
       THEN \E p \in th[t].us :
               th' = [th EXCEPT ![t].us = @ \ {p}, ![t].path = p,
                                ![t].at = "ud_lock"]
       ELSE th' = [th EXCEPT ![t].at = AtNotify(notifyNil)]
    /\ UNCHANGED <<all, byAddr, byFile, fileC, notify, dir, modified, last,
                   ctl, mu, es>>

\* readAccount(path) in goroutine t: the path is skipped when nothing valid
\* is read.
ReadT(t) ==
    /\ th[t].at = "read"
    /\ th' = [th EXCEPT ![t] =
                 IF readAccount(th[t].path) = ZeroAccount
                 THEN BetweenPaths(@)
                 ELSE [@ EXCEPT !.acct = readAccount(th[t].path),
                                !.at = "a_lock"]]
    /\ UNCHANGED <<all, byAddr, byFile, fileC, notify, dir, modified, last,
                   ctl, mu, es>>

\* The locked body of Add in goroutine t, and the deferred Unlock.
AddT(t) ==
    /\ th[t].at = "a_body"
    /\ SetCache(AddOp(Cache, th[t].acct, th[t].path))
    /\ mu' = Unlocked
    /\ th' = [th EXCEPT ![t] = BetweenPaths(@)]
    /\ UNCHANGED <<fileC, notify, dir, modified, last, ctl, es>>

\* The locked body of deleteByFile in goroutine t, and the deferred Unlock:
\* a deleted path is done, an updated path goes on to readAccount.
DeleteT(t) ==
    /\ th[t].at \in {"d_body", "ud_body"}
    /\ SetCache(DeleteByFileOp(Cache, th[t].path))
    /\ mu' = Unlocked
    /\ th' = [th EXCEPT ![t] =
                 IF @.at = "d_body"
                 THEN BetweenPaths(@)
                 ELSE [@ EXCEPT !.at = "read", !.own = "none",
                                !.old = FileAccount(Cache, th[t].path)]]
    /\ UNCHANGED <<fileC, notify, dir, modified, last, ctl, es>>

\* The select that ends a pass which found a changed path evaluates its
\* channel operand, ac.notify, without the mutex.
LoadNotifyT(t) ==
    /\ th[t].at \in {"notify", "notify_closed"}
    /\ \E ch \in NotifyRead(th[t].at, notifyNil) :
          th' = [th EXCEPT ![t].at = ch]
    /\ UNCHANGED <<all, byAddr, byFile, fileC, notify, dir, modified, last,
                   ctl, mu, es>>

\* The select sends, takes its default case, or panics.
SendNotifyT(t) ==
    /\ th[t].at \in {"send_chan", "send_nil"}
    /\ panicked' = SendPanics(th[t].at, notifyNil)
    /\ notify' = IF th[t].at = "send_chan" /\ ~notifyNil
                 THEN PostNotify(notify)
                 ELSE notify
    /\ th' = [th EXCEPT ![t] = AfterPass(@)]
    /\ UNCHANGED <<all, byAddr, byFile, fileC, dir, modified, last, throttle,
                   running, notifyNil, since, reload, pc, mu, es>>

\* The locked read of Accounts or HasAddress in goroutine t, and the
\* deferred Unlock.
ReturnT(t) ==
    /\ th[t].at = "rd_body"
    /\ last' = IF th[t].call = "Accounts"
               THEN Call("Accounts", ZeroAccount, "", "ok", ZeroAccount,
                         Accounts)
               ELSE Call("HasAddress", MkAccount(ZeroURL, AcctX.Address), "",
                         IF HasAddress(AcctX.Address) THEN "true" ELSE "false",
                         ZeroAccount, << >>)
    /\ mu' = Unlocked
    /\ th' = [th EXCEPT ![t] = Idle]
    /\ UNCHANGED <<all, byAddr, byFile, fileC, notify, dir, modified, ctl, es>>

\* One step of goroutine t inside Accounts, HasAddress or a pass; a panic
\* ends the process.
StepT(t) ==
    /\ ~panicked
    /\ \/ LockT(t)
       \/ GateT(t)
       \/ \E err \in BOOLEAN : ScanT(t, err)
       \/ LoopT(t)
       \/ ReadT(t)
       \/ AddT(t)
       \/ DeleteT(t)
       \/ LoadNotifyT(t)
       \/ SendNotifyT(t)
       \/ ReturnT(t)

NextLock ==
    \/ \E t \in Threads : CallT(t, "Accounts")
    \/ \E t \in Threads : CallT(t, "HasAddress")
    \/ \E t \in Threads : WatchT(t)
    \/ \E t \in Threads : StepT(t)
    \/ \E p \in LockFiles, c \in LockContents : WriteFile(p, c)
    \/ \E p \in LockFiles : RemoveFile(p)

SpecLock == Init /\ [][NextLock]_vars

\* The same goroutines under fair scheduling: a goroutine that can take a
\* step takes one, and a goroutine waiting in Lock gets the mutex when it is
\* free again and again (sync.Mutex hands the mutex to a starving waiter).
\* The directory's single key file is written over and over.
NextLockFair ==
    \/ \E t \in Threads : CallT(t, "Accounts")
    \/ \E t \in Threads : WatchT(t)
    \/ \E t \in Threads : StepT(t)
    \/ \E p \in LockFiles : WriteFile(p, KeyFile(AcctX))

SpecLockFair ==
    /\ Init
    /\ [][NextLockFair]_vars
    /\ \A t \in Threads : WF_vars(StepT(t)) /\ SF_vars(LockT(t))

----------------------------------------------------------------------------
(* Goroutines: lookups and Close next to queries and passes                *)

\* The accounts looked up: by address alone, and by URL.
MutexQueries == {MkAccount(ZeroURL, AcctX.Address), AcctX}

\* What a read that overlaps a mutation from index old to index new may
\* see: the assignments to ac.all, ac.byAddr and ac.byFile one after another.
Torn(old, new) ==
    {old,
     Index(new.all, old.byAddr, old.byFile),
     Index(new.all, new.byAddr, old.byFile),
     new}

\* The index as goroutine t may read it: as it is, or, when another
\* goroutine is in the locked body of Add or deleteByFile, anywhere in that
\* mutation.
Views(t) ==
    {Cache}
    \cup UNION {Torn(Cache, AddOp(Cache, th[u].acct, th[u].path)) :
                  u \in {v \in Threads \ {t} : th[v].at = "a_body"}}
    \cup UNION {Torn(Cache, DeleteByFileOp(Cache, th[u].path)) :
                  u \in {v \in Threads \ {t} :
                            th[v].at \in {"d_body", "ud_body"}}}

\* The caller of a lookup takes ac.Mu before the call.
HoldT(t) ==
    /\ ~panicked
    /\ th[t] = Idle
    /\ mu = NoThread
    /\ mu' = Locked(t)
    /\ th' = [th EXCEPT ![t] = [Idle EXCEPT !.call = "caller", !.at = "held",
                                           !.own = "caller"]]
    /\ UNCHANGED <<all, byAddr, byFile, fileC, notify, dir, modified, last,
                   ctl, es>>

\* The caller releases ac.Mu after its lookups.
ReleaseT(t) ==
    /\ ~panicked
    /\ th[t].at = "held"
    /\ mu' = Unlocked
    /\ th' = [th EXCEPT ![t] = Idle]
    /\ UNCHANGED <<all, byAddr, byFile, fileC, notify, dir, modified, last,
                   ctl, es>>

\* AccountCache.Find in goroutine t, whose caller holds ac.Mu or does not:
\* Find takes no lock.
FindT(t, a) ==
    /\ ~panicked
    /\ th[t].at \in {"idle", "held"}
    /\ \E st \in Views(t) :
          \E sorted \in SortOutcomes(FindMatches(st, a)) :
              last' = FindOp(st, a, sorted)
    /\ UNCHANGED <<all, byAddr, byFile, fileC, notify, dir, modified, ctl,
                   conc>>

\* AccountCache.FindConfigFile in goroutine t: it takes no lock either.
FindConfigFileT(t, a) ==
    /\ ~panicked
    /\ th[t].at \in {"idle", "held"}
    /\ \E st \in Views(t) :
          IF ConfigFileMatches(st, a) = {}
          THEN last' = ConfigFileResult(a, FALSE, "")
          ELSE \E f \in ConfigFileMatches(st, a) :
                  last' = ConfigFileResult(a, TRUE, f)
    /\ UNCHANGED <<all, byAddr, byFile, fileC, notify, dir, modified, ctl,
                   conc>>

\* A goroutine calls Close.
CloseCallT(t) ==
    /\ ~panicked
    /\ th[t] = Idle
    /\ th' = [th EXCEPT ![t] = [Idle EXCEPT !.call = "Close", !.at = "c_lock"]]
    /\ UNCHANGED <<all, byAddr, byFile, fileC, notify, dir, modified, last,
                   ctl, mu, es>>

\* The locked body of Close in goroutine t, and the Unlock.
CloseT(t) ==
    /\ ~panicked
    /\ th[t].at = "c_body"
    /\ running' = FALSE
    /\ throttle' = IF throttle.nil THEN throttle ELSE Stop(throttle)
    /\ panicked' = ClosePanics(notifyNil)
    /\ notifyNil' = TRUE
    /\ last' = Call("Close", ZeroAccount, "",
                    IF notifyNil THEN "again" ELSE "first", ZeroAccount, << >>)
    /\ mu' = Unlocked
    /\ th' = [th EXCEPT ![t] = Idle]
    /\ UNCHANGED <<all, byAddr, byFile, fileC, notify, dir, modified, since,
                   reload, pc, es>>

NextMutex ==
    \/ \E t \in Threads : ~panicked /\ CallT(t, "Accounts")
    \/ \E t \in Threads : ~panicked /\ CallT(t, "HasAddress")
    \/ \E t \in Threads : StepT(t)
    \/ \E t \in Threads : HoldT(t)
    \/ \E t \in Threads : ReleaseT(t)
    \/ \E t \in Threads, a \in MutexQueries : FindT(t, a)
    \/ \E t \in Threads, a \in MutexQueries : FindConfigFileT(t, a)
    \/ \E t \in Threads : CloseCallT(t)
    \/ \E t \in Threads : CloseT(t)
    \/ \E p \in LockFiles : WriteFile(p, KeyFile(AcctX))

SpecMutex == Init /\ [][NextMutex]_vars

----------------------------------------------------------------------------
(* Properties of goroutines racing on the cache (SpecLock)                 *)

\* The account goroutine u is about to put in place of the one its update
\* removed: what the file holds until it is read, then what was read.
Replacement(u) ==
    IF th[u].at = "read" THEN readAccount(th[u].path) ELSE th[u].acct

\* Some goroutine is half way through an updated path whose old and new
\* content both describe an account: the old account is out of the index and
\* the new one is not in it yet.
MidUpdate ==
    \E u \in Threads :
        /\ th[u].at \in {"read", "a_lock"}
        /\ th[u].old # ZeroAccount
        /\ Replacement(u) # ZeroAccount
        /\ ~Holds(all, th[u].old)
        /\ ~Holds(all, Replacement(u))

\* C22: the handling of one changed path is atomic for readers: no locked
\* read of Accounts or HasAddress happens while the index has lost the old
\* account of an updated file and has not yet got the new one.
C22_AtomicPerPath == [][\A t \in Threads : ReturnT(t) => ~MidUpdate]_vars

\* Where a goroutine holds the mutex: the locked part of MaybeReload and the
\* locked bodies of Accounts, HasAddress, Add and deleteByFile.
Bodies == {"mr_gate", "rd_body", "a_body", "d_body", "ud_body", "c_body"}

\* Where a goroutine does directory or file I/O.
InIO == {"scan", "read"}

LockDiscipline ==
    \A t \in Threads :
        /\ mu = t <=> th[t].at \in Bodies
        /\ th[t].at \in InIO => mu # t
        /\ th[t].at \in LockPoints => mu # t
        /\ th[t].call \in {"Accounts", "HasAddress"} =>
              th[t].rel = IF th[t].at \in {"mr_lock", "mr_gate"} THEN 0 ELSE 1

\* C24: MaybeReload releases the mutex exactly once, before the scan starts,
\* on each of its paths; a goroutine holds the mutex only in the locked part
\* of MaybeReload and in the locked bodies of Accounts, HasAddress, Add and
\* deleteByFile, never during the directory scan or the reading of a file,
\* and never when it calls Lock; and every query returns.
C24_LockDiscipline ==
    /\ []LockDiscipline
    /\ \A t \in Threads : (th[t].call = "Accounts") ~> (th[t] = Idle)

\* A caller-triggered pass is in the locked body of Add, its MaybeReload has
\* released the mutex once, and the other goroutine's query waits in Lock.
C24_Witness ==
    /\ th["t1"].call = "Accounts" /\ th["t1"].at = "a_body"
    /\ th["t1"].rel = 1 /\ mu = "t1"
    /\ th["t2"].call = "Accounts" /\ th["t2"].at = "rd_lock"

\* No goroutine is inside a pass: each is idle, or in MaybeReload before its
\* pass, or at the locked read after it.
PassesDone ==
    \A t \in Threads :
        th[t].at \in {"idle", "mr_lock", "mr_gate", "rd_lock", "rd_body"}

\* The index holds exactly the accounts of the files in the directory.
IndexIsDirectory ==
    \A x \in Accts :
        Holds(all, x) <=> \E p \in Files : dir[p] = KeyFile(x)

\* C25: whatever the interleaving of racing passes, the list stays sorted
\* without duplicates, byAddr and byFile stay consistent with it, and once
\* the passes have finished, with the directory as the last scan saw it, the
\* index holds exactly the accounts of the files in the directory.
C25_RacingPasses ==
    /\ C1_SortedNoDuplicates
    /\ C2_AddressIndexConsistent
    /\ C3_NoDanglingFileEntries
    /\ (PassesDone /\ ~Pending) => IndexIsDirectory

----------------------------------------------------------------------------
(* Properties of lookups and Close next to queries and passes (SpecMutex)  *)

\* Goroutine t reads or changes the index in Accounts, HasAddress, Add or
\* deleteByFile, or runs the body of Close.
LockedStep(t) == ReturnT(t) \/ AddT(t) \/ DeleteT(t) \/ CloseT(t)

\* Goroutine t reads the index in Find or FindConfigFile.
LookupStep(t) ==
    \E a \in MutexQueries : FindT(t, a) \/ FindConfigFileT(t, a)

\* C23 as stated: every operation that reads or changes the index, Find and
\* FindConfigFile included, has taken the mutex itself and holds it while it
\* accesses the index.
C23_AllOpsLock ==
    [][\A t \in Threads :
          (LockedStep(t) \/ LookupStep(t)) => (mu = t /\ th[t].own = "op")]_vars

\* C23 as the code has it: Accounts, HasAddress, Add, deleteByFile and Close
\* take the mutex themselves, hold it for their whole access and release it;
\* Find and FindConfigFile take no lock and leave the mutex as it is, and
\* when their caller holds the mutex no mutation is in flight while they
\* read.  The mutex is held exactly by the goroutine in such a locked body
\* or in a caller's hold, so locked accesses never overlap.
C23_LockedOps ==
    /\ [](\A t \in Threads : mu = t <=> th[t].at \in Bodies \cup {"held"})
    /\ [][\A t \in Threads :
             /\ LockedStep(t) =>
                   (mu = t /\ th[t].own = "op" /\ mu' = NoThread)
             /\ LookupStep(t) =>
                   /\ mu' = mu
                   /\ th[t].own # "op"
                   /\ th[t].at = "held" => (mu = t /\ Views(t) = {Cache})]_vars

\* A Find has answered for a goroutine whose caller holds the mutex, while
\* the other goroutine's pass waits in the Lock of Add.
C23_Witness ==
    /\ last.op = "Find" /\ last.kind = "ok"
    /\ th["t1"].at = "held" /\ mu = "t1"
    /\ th["t2"].at = "a_lock"

====
